---- MODULE Spec2Model ----
(***************************************************************************)
(* Model of the command-line argument parser of package args (parser.go):  *)
(* the builder (New, Flag, Option, Command, Action, Positional), the token *)
(* resolver (Parse, parseFlag, parseOption), the dispatcher (Run) and the  *)
(* ancestor collection used by Usage (collectFlags, collectOptions).  Of   *)
(* Usage the model keeps the lists it collects and the padding it computes *)
(* for each flag line; the text it prints is left out.                     *)
(*                                                                         *)
(* A Go string is a sequence of one-character strings, so that "--"+name,  *)
(* strings.HasPrefix and the slice arg[len(prefix):] are computed.  A Go   *)
(* map is a function whose DOMAIN is the key set; ranging over a map       *)
(* visits its entries in an order the Go runtime chooses, which is a       *)
(* nondeterministic choice here.  Go slices are 0-based, sequences are     *)
(* 1-based: the cursor i of Parse is modelled by i + 1.                    *)
(***************************************************************************)
EXTENDS Integers, Sequences, FiniteSets

\* Longest argument list handed to Parse / Run.
MaxArgs == 3

\* Largest number of builder calls made on the base tree of SpecBuild.
MaxBuild == 3

\* The nil *Parser.
Nil == 0

\* The receiver of Parse and Run: the first node of the arena.
Root == 1

\* A nil func(*Result) error.
NoHandler == "nil"

\* A nil error.
NoErr == <<"nil">>

\* The two ways Run can panic instead of returning.
NilDereference == "panic: nil pointer dereference"
NegativeRepeat == "panic: strings: negative Repeat count"

\* A nil *Result.
NilResult == [nil |-> TRUE]

EmptyMap == [x \in {} |-> x]

\* m[k] = v of a Go map.
Put(m, k, v) == [x \in DOMAIN m \cup {k} |-> IF x = k THEN v ELSE m[x]]

\* strings.HasPrefix(s, prefix)
HasPrefix(s, prefix) ==
    /\ Len(prefix) <= Len(s)
    /\ SubSeq(s, 1, Len(prefix)) = prefix

\* s[len(prefix):]
CutPrefix(s, prefix) == SubSeq(s, Len(prefix) + 1, Len(s))

\* "--" + name
Long(name) == <<"-", "-">> \o name

\* "-" + short
Short(short) == <<"-">> \o short

\* "--" + name + "="   and   "-" + short + "="
LongEq(name) == Long(name) \o <<"=">>
ShortEq(short) == Short(short) \o <<"=">>

(***************************************************************************)
(* The builder.  The tree is an arena: a sequence of nodes, a *Parser is   *)
(* an index into it, and every builder call maps an arena to an arena.     *)
(***************************************************************************)
New(name) ==
    [name |-> name, description |-> "", flags |-> EmptyMap,
     options |-> EmptyMap, commands |-> EmptyMap, parent |-> Nil,
     handler |-> NoHandler, positionals |-> <<>>]

Flag(ns, p, name, short, help) ==
    [ns EXCEPT ![p].flags =
        Put(@, name, [name |-> name, short |-> short, help |-> help])]

Option(ns, p, name, short, help) ==
    [ns EXCEPT ![p].options =
        Put(@, name, [name |-> name, short |-> short, help |-> help,
                      choices |-> <<>>])]

\* The pointer Command returns: the new child.
CommandChild(ns) == Len(ns) + 1

Command(ns, p, name, help) ==
    Append([ns EXCEPT ![p].commands = Put(@, name, CommandChild(ns))],
           [New(name) EXCEPT !.description = help, !.parent = p])

Action(ns, p, fn) == [ns EXCEPT ![p].handler = fn]

Positional(ns, p, name) ==
    [ns EXCEPT ![p].positionals = Append(@, name)]

(***************************************************************************)
(* The token resolver.  parseFlag and parseOption return the set of        *)
(* results the call can produce, one for every order in which the range    *)
(* loop can visit the node's map; the effect on *Result is carried in the  *)
(* record (name, value) and applied by the caller's action.                *)
(***************************************************************************)
NotHandled == [handled |-> FALSE, consumed |-> 0, name |-> <<>>, value |-> <<>>]

\* The condition of parser.go:123.
FlagMatches(flag, arg) ==
    \/ arg = Long(flag.name)
    \/ flag.short # <<>> /\ arg = Short(flag.short)

\* parseFlag that goes on to the parent's flags when the node's own do not
\* match.
RECURSIVE parseFlagInherited(_, _, _)
parseFlagInherited(ns, p, arg) ==
    LET hits == {n \in DOMAIN ns[p].flags : FlagMatches(ns[p].flags[n], arg)}
    IN  IF hits # {}
        THEN {[handled |-> TRUE, consumed |-> 1,
               name |-> ns[p].flags[n].name, value |-> <<>>] : n \in hits}
        ELSE IF ns[p].parent = Nil THEN {NotHandled}
        ELSE parseFlagInherited(ns, ns[p].parent, arg)

\* The loop returns at the first flag it visits that matches.
parseFlag(ns, p, arg) ==
    LET hits == {n \in DOMAIN ns[p].flags : FlagMatches(ns[p].flags[n], arg)}
    IN  IF hits = {}
        THEN {NotHandled}
        ELSE {[handled |-> TRUE, consumed |-> 1,
               name |-> ns[p].flags[n].name, value |-> <<>>] : n \in hits}

\* The conditions of parser.go:133, 139 and 145.
OptionLongEq(opt, arg) == HasPrefix(arg, LongEq(opt.name))
OptionShortEq(opt, arg) == opt.short # <<>> /\ HasPrefix(arg, ShortEq(opt.short))
OptionExact(opt, arg) ==
    \/ arg = Long(opt.name)
    \/ opt.short # <<>> /\ arg = Short(opt.short)

\* Some if of the loop body is entered for opt: the loop returns there.
OptionFires(opt, arg) ==
    OptionLongEq(opt, arg) \/ OptionShortEq(opt, arg) \/ OptionExact(opt, arg)

\* InlineValue cut one character early: the value keeps the "=".
InlineValueKeepEq(arg, prefix) == SubSeq(arg, Len(prefix), Len(arg))

\* The value of an inline form: arg[len(prefix):]
InlineValue(arg, prefix) == CutPrefix(arg, prefix)

\* OptionResult without the len(args) < 2 test: a missing value reads as "".
OptionResultNoLenTest(opt, arg, args) ==
    IF OptionLongEq(opt, arg)
    THEN [handled |-> TRUE, consumed |-> 1, name |-> opt.name,
          value |-> InlineValue(arg, LongEq(opt.name))]
    ELSE IF OptionShortEq(opt, arg)
    THEN [handled |-> TRUE, consumed |-> 1, name |-> opt.name,
          value |-> InlineValue(arg, ShortEq(opt.short))]
    ELSE [handled |-> TRUE, consumed |-> 2, name |-> opt.name,
          value |-> IF Len(args) < 2 THEN <<>> ELSE args[2]]

\* What the loop body returns for an option that fires; args is args[i:].
OptionResult(opt, arg, args) ==
    IF OptionLongEq(opt, arg)
    THEN [handled |-> TRUE, consumed |-> 1, name |-> opt.name,
          value |-> InlineValue(arg, LongEq(opt.name))]
    ELSE IF OptionShortEq(opt, arg)
    THEN [handled |-> TRUE, consumed |-> 1, name |-> opt.name,
          value |-> InlineValue(arg, ShortEq(opt.short))]
    ELSE IF Len(args) < 2
    THEN NotHandled
    ELSE [handled |-> TRUE, consumed |-> 2, name |-> opt.name,
          value |-> args[2]]
\* parseOption returning 1 for the space form: the value stays under the cursor.
parseOptionConsumeOne(ns, p, arg, args) ==
    LET hits == {n \in DOMAIN ns[p].options : OptionFires(ns[p].options[n], arg)}
    IN  IF hits = {}
        THEN {NotHandled}
        ELSE {[OptionResult(ns[p].options[n], arg, args)
                  EXCEPT !.consumed = IF @ = 2 THEN 1 ELSE @] : n \in hits}

parseOption(ns, p, arg, args) ==
    LET hits == {n \in DOMAIN ns[p].options : OptionFires(ns[p].options[n], arg)}
    IN  IF hits = {}
        THEN {NotHandled}
        ELSE {OptionResult(ns[p].options[n], arg, args) : n \in hits}

\* Classify with the dash test moved before the subcommand lookup.
ClassifyDashFirst(ns, p, arg) ==
    IF HasPrefix(arg, <<"-">>) THEN "dash"
    ELSE IF arg \in DOMAIN ns[p].commands THEN "command"
    ELSE "positional"

\* The branch of the loop body taken for the token at the cursor.
Classify(ns, p, arg) ==
    IF arg \in DOMAIN ns[p].commands THEN "command"
    ELSE IF HasPrefix(arg, <<"-">>) THEN "dash"
    ELSE "positional"

\* The dash branch (parser.go:100-110): flag, then option, then the error.
Tag(kind, r) == [kind |-> kind, consumed |-> r.consumed, name |-> r.name,
                 value |-> r.value]
\* ParseDash with parseOption tried before parseFlag.
ParseDashOptionFirst(ns, p, arg, args) ==
    LET os == {r \in parseOption(ns, p, arg, args) : r.handled}
    IN  IF os # {}
        THEN {Tag("option", r) : r \in os}
        ELSE {Tag(IF r.handled THEN "flag" ELSE "unknown", r) :
                 r \in parseFlag(ns, p, arg)}

ParseDash(ns, p, arg, args) ==
    LET fs == {r \in parseFlag(ns, p, arg) : r.handled}
    IN  IF fs # {}
        THEN {Tag("flag", r) : r \in fs}
        ELSE {Tag(IF r.handled THEN "option" ELSE "unknown", r) :
                 r \in parseOption(ns, p, arg, args)}

\* fmt.Errorf("unknown flag: %s", arg)
UnknownFlag(arg) == <<"unknown flag: ", arg>>

\* errors.New("no arguments provided")
ErrNoArgs == <<"no arguments provided">>

\* The Result Parse allocates.
NewResult ==
    [Command |-> <<>>, Flags |-> EmptyMap, Options |-> EmptyMap,
     Positionals |-> <<>>, Args |-> <<>>]

\* Finish that leaves Args unset.
FinishNoArgs(r) == r

\* result.Args = result.Positionals
Finish(r) == [r EXCEPT !.Args = r.Positionals]

\* (*Result).Flag
ResultFlag(r, name) == IF name \in DOMAIN r.Flags THEN r.Flags[name] ELSE FALSE

(***************************************************************************)
(* Ancestor collection (collectFlags, collectOptions): the set of slices   *)
(* the call can return, one for every order of the range loops.            *)
(***************************************************************************)
RECURSIVE Perms(_)
Perms(S) ==
    IF S = {} THEN {<<>>}
    ELSE UNION {{<<x>> \o r : r \in Perms(S \ {x})} : x \in S}

\* The orders in which a range loop can visit the values of map m.
Orders(m) == {[k \in 1..Len(o) |-> m[o[k]]] : o \in Perms(DOMAIN m)}

\* Seen that reads the map before any name is recorded in it.
SeenNever(acc, d) == FALSE

\* seen[d.name]: the seen map holds exactly the names appended so far.
Seen(acc, d) == \E k \in 1..Len(acc) : acc[k].name = d.name

\* One inner loop: append every definition of order whose name is unseen.
RECURSIVE AppendUnseen(_, _)
AppendUnseen(acc, order) ==
    IF order = <<>> THEN acc
    ELSE AppendUnseen(IF Seen(acc, Head(order)) THEN acc
                      ELSE Append(acc, Head(order)),
                      Tail(order))

RECURSIVE collectFlagsFrom(_, _, _)
collectFlagsFrom(ns, cur, acc) ==
    IF cur = Nil THEN {acc}
    ELSE UNION {collectFlagsFrom(ns, ns[cur].parent, AppendUnseen(acc, o)) :
                   o \in Orders(ns[cur].flags)}

collectFlags(ns, p) == collectFlagsFrom(ns, p, <<>>)

RECURSIVE collectOptionsFrom(_, _, _)
collectOptionsFrom(ns, cur, acc) ==
    IF cur = Nil THEN {acc}
    ELSE UNION {collectOptionsFrom(ns, ns[cur].parent, AppendUnseen(acc, o)) :
                   o \in Orders(ns[cur].options)}

collectOptions(ns, p) == collectOptionsFrom(ns, p, <<>>)

(***************************************************************************)
(* The inputs.  Names and tokens are short so that every form of the token *)
(* grammar, and every collision the builder allows, occurs within MaxArgs. *)
(***************************************************************************)
R == <<"r">>
V == <<"v">>
N == <<"n">>
M == <<"m">>
X == <<"x">>
W == <<"w">>
None == <<>>

Tokens ==
    { R, W, <<"-">>, Short(V), Long(V), Short(N), Long(N),
      LongEq(N) \o W, ShortEq(N) \o W, LongEq(N) }

ArgLists == UNION {[1..n -> Tokens] : n \in 0..MaxArgs}

\* root: flag v/-v, option n/-n, handler;  r: flag v (no short), option n
\* (no short), no handler;  r r: handler only.
TreeInherit ==
    LET t1 == Action(Option(Flag(<<New(M)>>, Root, V, V, "root"),
                            Root, N, N, "root"), Root, "hRoot")
        r  == CommandChild(t1)
        t2 == Option(Flag(Command(t1, Root, R, "run"), r, V, None, "run"),
                     r, N, None, "run")
        rr == CommandChild(t2)
    IN  Action(Command(t2, r, R, "run run"), rr, "hLeaf")

\* root: flag v/-v and option v/-v of one name, option n without short, a
\* child named "-v" with a handler, no handler of its own.
TreeCollide ==
    LET t1 == Option(Option(Flag(<<New(M)>>, Root, V, V, "flag"),
                            Root, V, V, "option"), Root, N, None, "option")
        c  == CommandChild(t1)
    IN  Action(Command(t1, Root, Short(V), "dash"), c, "hDash")

\* root: two flags of short v, two options of short n, handler, child r.
TreeShared ==
    LET t1 == Flag(Flag(<<New(M)>>, Root, V, V, "v"), Root, X, V, "x")
        t2 == Option(Option(t1, Root, N, N, "n"), Root, M, N, "m")
    IN  Command(Action(t2, Root, "hRoot"), Root, R, "run")

\* root: flag experimental/-v, no handler;  r: handler.
Experimental == <<"e", "x", "p", "e", "r", "i", "m", "e", "n", "t", "a", "l">>

TreeWide ==
    LET t1 == Flag(<<New(M)>>, Root, Experimental, V, "experimental")
        r  == CommandChild(t1)
    IN  Action(Command(t1, Root, R, "run"), r, "hRun")

\* root: option n without short and option "n=" of short "-n", whose forms
\* overlap (--n= is the bare form of one and an inline form of both), handler.
TreeOverlap ==
    LET t1 == Option(<<New(M)>>, Root, N, None, "n")
    IN  Action(Option(t1, Root, N \o <<"=">>, Short(N), "n="), Root, "hRoot")

Trees == {TreeInherit, TreeCollide, TreeShared, TreeWide, TreeOverlap}

\* What a handler can return.
HandlerReturns == {NoErr, <<"handler failed">>}

\* No value yet: the call has not returned.
Pending == <<"pending">>

VARIABLES nodes, args, pc, current, i, result, ret, log,
          runCur, runK, calls, usage, runRet, built

vars == <<nodes, args, pc, current, i, result, ret, log,
          runCur, runK, calls, usage, runRet, built>>

parseVars == <<current, i, result, ret, log>>
runVars == <<runCur, runK, calls, usage, runRet>>

Idle ==
    /\ current = Nil /\ i = 0 /\ result = NilResult /\ ret = Pending
    /\ log = <<>> /\ runCur = Nil /\ runK = 0 /\ calls = <<>>
    /\ usage = <<>> /\ runRet = Pending /\ built = 0

Init ==
    /\ nodes \in Trees
    /\ args \in ArgLists
    /\ pc = "ready"
    /\ Idle

(***************************************************************************)
(* Parse.  One action per path through one pass of the loop body.  log     *)
(* records, for each pass, the cursor, the active node and the branch      *)
(* taken; the code keeps no such record, the properties read it.           *)
(***************************************************************************)
Event(kind, name, consumed) ==
    [at |-> i, node |-> current, kind |-> kind, name |-> name,
     consumed |-> consumed]

InLoop == pc = "loop" /\ i <= Len(args)

\* args[i:]
Rest == SubSeq(args, i, Len(args))

\* len(args) == 0
ParseEmpty ==
    /\ pc = "ready"
    /\ Len(args) = 0
    /\ ret' = [result |-> NilResult, err |-> ErrNoArgs]
    /\ pc' = "failed"
    /\ UNCHANGED <<nodes, args, current, i, result, log, built>>
    /\ UNCHANGED runVars

ParseBegin ==
    /\ pc = "ready"
    /\ Len(args) # 0
    /\ result' = NewResult
    /\ current' = Root
    /\ i' = 1
    /\ pc' = "loop"
    /\ UNCHANGED <<nodes, args, ret, log, built>>
    /\ UNCHANGED runVars
\* LoopCommand that appends the name and stays on the parent.
LoopCommandNoDescent ==
    /\ InLoop
    /\ Classify(nodes, current, args[i]) = "command"
    /\ result' = [result EXCEPT !.Command = Append(@, args[i])]
    /\ i' = i + 1
    /\ log' = Append(log, Event("command", args[i], 1))
    /\ UNCHANGED <<nodes, args, pc, current, ret, built>>
    /\ UNCHANGED runVars

LoopCommand ==
    /\ InLoop
    /\ Classify(nodes, current, args[i]) = "command"
    /\ result' = [result EXCEPT !.Command = Append(@, args[i])]
    /\ current' = nodes[current].commands[args[i]]
    /\ i' = i + 1
    /\ log' = Append(log, Event("command", args[i], 1))
    /\ UNCHANGED <<nodes, args, pc, ret, built>>
    /\ UNCHANGED runVars

LoopFlag ==
    /\ InLoop
    /\ Classify(nodes, current, args[i]) = "dash"
    /\ \E o \in ParseDash(nodes, current, args[i], Rest) :
          /\ o.kind = "flag"
          /\ result' = [result EXCEPT !.Flags = Put(@, o.name, TRUE)]
          /\ i' = i + o.consumed
          /\ log' = Append(log, Event("flag", o.name, o.consumed))
    /\ UNCHANGED <<nodes, args, pc, current, ret, built>>
    /\ UNCHANGED runVars

LoopOption ==
    /\ InLoop
    /\ Classify(nodes, current, args[i]) = "dash"
    /\ \E o \in ParseDash(nodes, current, args[i], Rest) :
          /\ o.kind = "option"
          /\ result' = [result EXCEPT !.Options = Put(@, o.name, o.value)]
          /\ i' = i + o.consumed
          /\ log' = Append(log, Event("option", o.name, o.consumed))
    /\ UNCHANGED <<nodes, args, pc, current, ret, built>>
    /\ UNCHANGED runVars

LoopUnknown ==
    /\ InLoop
    /\ Classify(nodes, current, args[i]) = "dash"
    /\ \E o \in ParseDash(nodes, current, args[i], Rest) :
          /\ o.kind = "unknown"
          /\ ret' = [result |-> NilResult, err |-> UnknownFlag(args[i])]
          /\ log' = Append(log, Event("unknown", args[i], 0))
    /\ pc' = "failed"
    /\ UNCHANGED <<nodes, args, current, i, result, built>>
    /\ UNCHANGED runVars

LoopPositional ==
    /\ InLoop
    /\ Classify(nodes, current, args[i]) = "positional"
    /\ result' = [result EXCEPT !.Positionals = Append(@, args[i])]
    /\ i' = i + 1
    /\ log' = Append(log, Event("positional", args[i], 1))
    /\ UNCHANGED <<nodes, args, pc, current, ret, built>>
    /\ UNCHANGED runVars

ParseReturn ==
    /\ pc = "loop"
    /\ i > Len(args)
    /\ result' = Finish(result)
    /\ ret' = [result |-> Finish(result), err |-> NoErr]
    /\ pc' = "returned"
    /\ UNCHANGED <<nodes, args, current, i, log, built>>
    /\ UNCHANGED runVars

(***************************************************************************)
(* Run, after its call of Parse has returned.                              *)
(***************************************************************************)
\* m[k] of a map of pointers: nil for a missing key.
Lookup(m, k) == IF k \in DOMAIN m THEN m[k] ELSE Nil

\* err != nil: return err
RunError ==
    /\ pc = "failed"
    /\ runRet' = ret.err
    /\ pc' = "done"
    /\ UNCHANGED <<nodes, args, built, runCur, runK, calls, usage>>
    /\ UNCHANGED parseVars

\* current := p
RunBegin ==
    /\ pc = "returned"
    /\ runCur' = Root
    /\ runK' = 1
    /\ pc' = "walk"
    /\ UNCHANGED <<nodes, args, built, calls, usage, runRet>>
    /\ UNCHANGED parseVars

\* current = current.commands[cmd]; a nil current panics.
RunWalk ==
    /\ pc = "walk"
    /\ runK <= Len(ret.result.Command)
    /\ IF runCur = Nil
       THEN pc' = NilDereference /\ UNCHANGED <<runCur, runK>>
       ELSE /\ runCur' = Lookup(nodes[runCur].commands, ret.result.Command[runK])
            /\ runK' = runK + 1
            /\ pc' = "walk"
    /\ UNCHANGED <<nodes, args, built, calls, usage, runRet>>
    /\ UNCHANGED parseVars

\* return current.handler(result)
RunHandler ==
    /\ pc = "walk"
    /\ runK > Len(ret.result.Command)
    /\ IF runCur = Nil
       THEN pc' = NilDereference /\ UNCHANGED <<calls, runRet>>
       ELSE /\ nodes[runCur].handler # NoHandler
            /\ \E e \in HandlerReturns :
                  /\ calls' = Append(calls, [fn |-> nodes[runCur].handler,
                                             node |-> runCur,
                                             result |-> ret.result,
                                             returned |-> e])
                  /\ runRet' = e
            /\ pc' = "done"
    /\ UNCHANGED <<nodes, args, built, runCur, runK, usage>>
    /\ UNCHANGED parseVars

\* The lists Usage prints for node p.
Usage(p) ==
    {[node |-> p, flags |-> f, options |-> o] :
        f \in collectFlags(nodes, p), o \in collectOptions(nodes, p)}

\* The column at which the help text of a flag line starts.
FlagColumn == 15

\* short of a flag line: fmt.Sprintf("-%s, ", flag.short), or "".
ShortLabel(flag) ==
    IF flag.short # <<>> THEN <<"-">> \o flag.short \o <<",", " ">> ELSE <<>>

\* The count handed to strings.Repeat for a flag line.
FlagPadding(flag) == FlagColumn - Len(ShortLabel(flag) \o flag.name)

\* strings.Repeat panics on a negative count: printing the flag lines of
\* list flags does not get to the end.
FlagLinesPanic(flags) == \E k \in 1..Len(flags) : FlagPadding(flags[k]) < 0

\* current.Usage(); return nil
RunUsage ==
    /\ pc = "walk"
    /\ runK > Len(ret.result.Command)
    /\ runCur # Nil
    /\ nodes[runCur].handler = NoHandler
    /\ \E u \in Usage(runCur) :
          IF FlagLinesPanic(u.flags)
          THEN pc' = NegativeRepeat /\ UNCHANGED <<usage, runRet>>
          ELSE /\ usage' = Append(usage, u)
               /\ runRet' = NoErr
               /\ pc' = "done"
    /\ UNCHANGED <<nodes, args, built, runCur, runK, calls>>
    /\ UNCHANGED parseVars

Next ==
    \/ ParseEmpty
    \/ ParseBegin
    \/ LoopCommand
    \/ LoopFlag
    \/ LoopOption
    \/ LoopUnknown
    \/ LoopPositional
    \/ ParseReturn
    \/ RunError
    \/ RunBegin
    \/ RunWalk
    \/ RunHandler
    \/ RunUsage

Spec == Init /\ [][Next]_vars

(***************************************************************************)
(* The builder as a process: up to MaxBuild declarations on a three-level  *)
(* chain, then Usage on any node of the arena.                             *)
(***************************************************************************)
BuildNames == {V, N}
BuildShorts == {None, V}

\* New(m).Command(r).Command(r)
BaseChain ==
    LET t1 == Command(<<New(M)>>, Root, R, "")
    IN  Command(t1, CommandChild(<<New(M)>>), R, "")

InitBuild ==
    /\ nodes = BaseChain
    /\ args = <<>>
    /\ pc = "build"
    /\ Idle

Building == pc = "build" /\ built < MaxBuild

BuildFlag ==
    /\ Building
    /\ \E p \in DOMAIN nodes, name \in BuildNames, short \in BuildShorts :
          nodes' = Flag(nodes, p, name, short, "")
    /\ built' = built + 1
    /\ UNCHANGED <<args, pc>>
    /\ UNCHANGED parseVars
    /\ UNCHANGED runVars

BuildOption ==
    /\ Building
    /\ \E p \in DOMAIN nodes, name \in BuildNames, short \in BuildShorts :
          nodes' = Option(nodes, p, name, short, "")
    /\ built' = built + 1
    /\ UNCHANGED <<args, pc>>
    /\ UNCHANGED parseVars
    /\ UNCHANGED runVars

BuildCommand ==
    /\ Building
    /\ \E p \in DOMAIN nodes : nodes' = Command(nodes, p, R, "")
    /\ built' = built + 1
    /\ UNCHANGED <<args, pc>>
    /\ UNCHANGED parseVars
    /\ UNCHANGED runVars

BuildAction ==
    /\ Building
    /\ \E p \in DOMAIN nodes : nodes' = Action(nodes, p, "h")
    /\ built' = built + 1
    /\ UNCHANGED <<args, pc>>
    /\ UNCHANGED parseVars
    /\ UNCHANGED runVars

BuildPositional ==
    /\ Building
    /\ \E p \in DOMAIN nodes : nodes' = Positional(nodes, p, W)
    /\ built' = built + 1
    /\ UNCHANGED <<args, pc>>
    /\ UNCHANGED parseVars
    /\ UNCHANGED runVars

\* p.Usage()
ShowUsage ==
    /\ pc = "build"
    /\ \E p \in DOMAIN nodes : \E u \in Usage(p) :
          IF FlagLinesPanic(u.flags)
          THEN pc' = NegativeRepeat /\ UNCHANGED usage
          ELSE usage' = Append(usage, u) /\ pc' = "shown"
    /\ UNCHANGED <<nodes, args, built, runCur, runK, calls, runRet>>
    /\ UNCHANGED parseVars

NextBuild ==
    \/ BuildFlag
    \/ BuildOption
    \/ BuildCommand
    \/ BuildAction
    \/ BuildPositional
    \/ ShowUsage

SpecBuild == InitBuild /\ [][NextBuild]_vars

(***************************************************************************)
(* Properties.  The predicates below restate the token grammar on the      *)
(* state; they do not go through Classify, ParseDash or the parse          *)
(* functions.                                                              *)
(***************************************************************************)
Dashed(tok) == Len(tok) >= 1 /\ tok[1] = "-"
IsChild(p, tok) == tok \in DOMAIN nodes[p].commands
FlagsOn(p, tok) ==
    {n \in DOMAIN nodes[p].flags : FlagMatches(nodes[p].flags[n], tok)}
OptionsOn(p, tok) ==
    {n \in DOMAIN nodes[p].options : OptionFires(nodes[p].options[n], tok)}
LogIndex == 1..Len(log)
Failure(tok) == [result |-> NilResult, err |-> <<"unknown flag: ", tok>>]

\* C1: whenever the token at the cursor is the name of a child of the active
\* node, the pass appends it to Result.Command and makes that child the active
\* node, and records it neither as a positional nor as a flag nor as an
\* option, also when the token matches a flag or option of the node.
C1_SubcommandFirst ==
    [][(InLoop /\ IsChild(current, args[i])) =>
          /\ pc' = "loop"
          /\ result'.Command = Append(result.Command, args[i])
          /\ current' = nodes[current].commands[args[i]]
          /\ result'.Flags = result.Flags
          /\ result'.Options = result.Options
          /\ result'.Positionals = result.Positionals]_vars

\* A pass took a token as a subcommand that a flag and an option of the same
\* node match too.
C1_Witness ==
    \E k \in LogIndex :
        /\ log[k].kind = "command"
        /\ Dashed(args[log[k].at])
        /\ FlagsOn(log[k].node, args[log[k].at]) # {}
        /\ OptionsOn(log[k].node, args[log[k].at]) # {}

\* An option of the node can take tok at the cursor: an inline form, or the
\* bare form with a token after it.
CanTake(p, tok) ==
    \E n \in DOMAIN nodes[p].options :
        \/ OptionLongEq(nodes[p].options[n], tok)
        \/ OptionShortEq(nodes[p].options[n], tok)
        \/ OptionExact(nodes[p].options[n], tok) /\ i < Len(args)

\* C2: a dash-prefixed token at the cursor that is no child name, matches no
\* flag and that no option of the active node can take (a bare --name / -short
\* as the last token included) makes Parse return a nil Result and the
\* unknown-flag error naming that token.
C2_UnknownFlag ==
    [][(/\ InLoop
        /\ Dashed(args[i])
        /\ ~IsChild(current, args[i])
        /\ FlagsOn(current, args[i]) = {}
        /\ ~CanTake(current, args[i])) =>
          /\ pc' = "failed"
          /\ ret' = Failure(args[i])]_vars

\* Parse failed on a bare option token that was the last token.
C2_Witness ==
    /\ pc = "failed"
    /\ log # <<>>
    /\ LET e == log[Len(log)]
       IN  /\ e.kind = "unknown"
           /\ e.at = Len(args)
           /\ \E n \in DOMAIN nodes[e.node].options :
                 OptionExact(nodes[e.node].options[n], args[e.at])
           /\ ret = Failure(args[e.at])

\* The token at the cursor is the bare form --name / -short of option n of
\* the active node and a token follows it.
BareWithValue(n) ==
    /\ i < Len(args)
    /\ OptionExact(nodes[current].options[n], args[i])

\* The pass stored the following token under n and moved the cursor by 2.
TookNext(n) ==
    /\ pc' = "loop"
    /\ i' = i + 2
    /\ n \in DOMAIN result'.Options
    /\ result'.Options[n] = args[i + 1]
    /\ log' = Append(log, Event("option", n, 2))

\* C3 as stated: for every option of the active node, a bare --name / -short
\* at the cursor with a token after it stores that token as Options[name] and
\* moves the cursor by 2.
C3_Stated ==
    [][InLoop =>
          \A n \in DOMAIN nodes[current].options :
              BareWithValue(n) => TookNext(n)]_vars

\* C3 amended: the same, for a token that is no child name of the active
\* node, matches no flag of it and matches no form of any other option of it
\* (nor an inline form of the same option).
C3_SpaceForm ==
    [][InLoop =>
          \A n \in DOMAIN nodes[current].options :
              (/\ BareWithValue(n)
               /\ ~IsChild(current, args[i])
               /\ FlagsOn(current, args[i]) = {}
               /\ OptionsOn(current, args[i]) = {n}
               /\ ~OptionLongEq(nodes[current].options[n], args[i])
               /\ ~OptionShortEq(nodes[current].options[n], args[i]))
              => TookNext(n)]_vars

\* A space-form option took as its value a dash-prefixed token that names a
\* child of the active node and that a flag of the node matches; no pass
\* examined the value of any space-form option.
C3_Witness ==
    /\ \E k \in LogIndex :
          /\ log[k].kind = "option" /\ log[k].consumed = 2
          /\ IsChild(log[k].node, args[log[k].at + 1])
          /\ result.Options[log[k].name] = args[log[k].at + 1]
    /\ \E k \in LogIndex :
          /\ log[k].kind = "option" /\ log[k].consumed = 2
          /\ FlagsOn(log[k].node, args[log[k].at + 1]) # {}
    /\ \A k, j \in LogIndex :
          (log[k].kind = "option" /\ log[k].consumed = 2)
              => log[j].at # log[k].at + 1

\* The inline prefixes of option n: "--name=", and "-short=" for a short.
InlinePrefixes(opt) ==
    {LongEq(opt.name)} \cup
    (IF opt.short # <<>> THEN {ShortEq(opt.short)} ELSE {})

\* The pass stored under n what follows prefix and moved the cursor by 1.
TookInline(n, prefix) ==
    /\ pc' = "loop"
    /\ i' = i + 1
    /\ n \in DOMAIN result'.Options
    /\ args[i] = prefix \o result'.Options[n]

\* C4 as stated: for every option of the active node, a token --name=value or
\* -short=value that is neither a child name nor a flag match sets
\* Options[name] to what follows the "=" of the prefix and consumes 1 token.
C4_Stated ==
    [][InLoop =>
          \A n \in DOMAIN nodes[current].options :
              \A prefix \in InlinePrefixes(nodes[current].options[n]) :
                  (/\ HasPrefix(args[i], prefix)
                   /\ ~IsChild(current, args[i])
                   /\ FlagsOn(current, args[i]) = {})
                  => TookInline(n, prefix)]_vars

\* C4 amended: the same, for a token that matches no form of any other
\* option of the node and, in the -short= form, does not begin with --name=
\* of the same option.
C4_InlineForm ==
    [][InLoop =>
          \A n \in DOMAIN nodes[current].options :
              \A prefix \in InlinePrefixes(nodes[current].options[n]) :
                  (/\ HasPrefix(args[i], prefix)
                   /\ ~IsChild(current, args[i])
                   /\ FlagsOn(current, args[i]) = {}
                   /\ OptionsOn(current, args[i]) = {n}
                   /\ (prefix # LongEq(n) =>
                          ~OptionLongEq(nodes[current].options[n], args[i])))
                  => TookInline(n, prefix)]_vars

\* The last pass took --name= with nothing after the "=": the empty value is
\* stored; an earlier pass took a -short=value.
C4_Witness ==
    /\ log # <<>>
    /\ LET e == log[Len(log)]
       IN  /\ e.kind = "option" /\ e.consumed = 1
           /\ args[e.at] = LongEq(e.name)
           /\ result.Options[e.name] = <<>>
    /\ \E k \in LogIndex :
          /\ log[k].kind = "option" /\ log[k].consumed = 1
          /\ \E n \in DOMAIN nodes[log[k].node].options :
                /\ nodes[log[k].node].options[n].short # <<>>
                /\ args[log[k].at] = ShortEq(nodes[log[k].node].options[n].short) \o W

\* The flag names some pass has matched.
Matched == {log[k].name : k \in {j \in LogIndex : log[j].kind = "flag"}}

\* The names a caller can ask Result.Flag for: every flag name of the tree
\* and one that is declared nowhere.
AskedNames ==
    UNION {DOMAIN nodes[p].flags : p \in DOMAIN nodes} \cup {W}

\* The pass set Flags[n] and consumed the one token, as a flag.
TookFlag(n) ==
    /\ pc' = "loop"
    /\ i' = i + 1
    /\ n \in DOMAIN result'.Flags
    /\ result'.Flags[n] = TRUE
    /\ result'.Options = result.Options
    /\ result'.Positionals = result.Positionals

\* Result.Flags holds no false entry and Result.Flag is false for every name
\* no pass matched.
FlagsSound ==
    result # NilResult =>
        /\ \A n \in DOMAIN result.Flags : result.Flags[n] = TRUE
        /\ \A n \in AskedNames \ Matched : ResultFlag(result, n) = FALSE
        /\ \A n \in Matched : ResultFlag(result, n) = TRUE

\* C5 as stated: for every flag of the active node, a token --name / -short
\* (short non-empty) at the cursor that is no child name sets Flags[name],
\* consumes that one token and is not taken as an option; Flags never holds
\* false and Result.Flag is false for every unmatched name.
C5_Stated ==
    /\ []FlagsSound
    /\ [][InLoop =>
            \A n \in DOMAIN nodes[current].flags :
                (/\ FlagMatches(nodes[current].flags[n], args[i])
                 /\ ~IsChild(current, args[i]))
                => TookFlag(n)]_vars

\* C5 amended: the same, for a token that matches no other flag of the node.
C5_FlagForm ==
    /\ []FlagsSound
    /\ [][InLoop =>
            \A n \in DOMAIN nodes[current].flags :
                (/\ FlagMatches(nodes[current].flags[n], args[i])
                 /\ ~IsChild(current, args[i])
                 /\ FlagsOn(current, args[i]) = {n})
                => TookFlag(n)]_vars

\* A pass took as a flag a token that is also the bare form of an option of
\* the node, with a token after it that the option could have taken.
C5_Witness ==
    \E k \in LogIndex :
        /\ log[k].kind = "flag"
        /\ log[k].at < Len(args)
        /\ \E n \in DOMAIN nodes[log[k].node].options :
              OptionExact(nodes[log[k].node].options[n], args[log[k].at])
        /\ ResultFlag(result, log[k].name)
        /\ result.Options = EmptyMap

\* The proper ancestors of node p, nearest first.
RECURSIVE Ancestors(_)
Ancestors(p) ==
    IF nodes[p].parent = Nil THEN <<>>
    ELSE <<nodes[p].parent>> \o Ancestors(nodes[p].parent)

AncestorSet(p) == {Ancestors(p)[k] : k \in 1..Len(Ancestors(p))}

\* The names of the definitions in list l.
NamesOf(l) == {l[k].name : k \in 1..Len(l)}

\* tok matches a flag or an option declared on a proper ancestor of p, and
\* every list collectFlags / collectOptions can return for p names it.
InheritedOnly(p, tok) ==
    \E a \in AncestorSet(p) :
        \/ /\ FlagsOn(a, tok) # {}
           /\ \A l \in collectFlags(nodes, p) : FlagsOn(a, tok) \subseteq NamesOf(l)
        \/ /\ OptionsOn(a, tok) # {}
           /\ \A l \in collectOptions(nodes, p) : OptionsOn(a, tok) \subseteq NamesOf(l)

\* C6: with a child as the active node, a dash-prefixed token that matches a
\* flag or option of an ancestor, and nothing of the child itself, is
\* refused with the unknown-flag error, although collectFlags /
\* collectOptions of the child list that name.
C6_NodeLocal ==
    [][(/\ InLoop
        /\ current # Root
        /\ Dashed(args[i])
        /\ ~IsChild(current, args[i])
        /\ FlagsOn(current, args[i]) = {}
        /\ OptionsOn(current, args[i]) = {}
        /\ \E a \in AncestorSet(current) :
              FlagsOn(a, args[i]) # {} \/ OptionsOn(a, args[i]) # {}) =>
          /\ InheritedOnly(current, args[i])
          /\ pc' = "failed"
          /\ ret' = Failure(args[i])]_vars

\* Parse failed in a child on a token that a flag of the root matches, and
\* every collectFlags list of the child holds the root's own definition.
C6_Witness ==
    /\ pc = "failed"
    /\ log # <<>>
    /\ LET e == log[Len(log)]
       IN  /\ e.kind = "unknown"
           /\ e.node # Root
           /\ \E n \in FlagsOn(Root, args[e.at]) :
                 \A l \in collectFlags(nodes, e.node) :
                     \E k \in 1..Len(l) : l[k] = nodes[Root].flags[n]

\* C7: on a non-empty argument list with no dash-prefixed token and no name
\* of a child of the root, Parse never fails, always has a next step until it
\* returns, and returns the list as Positionals and as Args, in order, with
\* Flags, Options and Command empty.
C7_OnlyPositionals ==
    (/\ Len(args) > 0
     /\ \A k \in 1..Len(args) : ~Dashed(args[k]) /\ ~IsChild(Root, args[k])) =>
        /\ pc \notin {"failed", NilDereference}
        /\ pc \in {"ready", "loop"} => ENABLED Next
        /\ pc \in {"returned", "walk", "done"} =>
              /\ ret.err = NoErr
              /\ ret.result.Positionals = args
              /\ ret.result.Args = args
              /\ ret.result.Flags = EmptyMap
              /\ ret.result.Options = EmptyMap
              /\ ret.result.Command = <<>>

\* Parse returned for three positionals that are not all the same token.
C7_Witness ==
    /\ pc = "returned"
    /\ Len(args) = 3
    /\ args[1] # args[2]
    /\ \A k \in 1..Len(args) : ~Dashed(args[k]) /\ ~IsChild(Root, args[k])
    /\ ret.result.Args = args

\* The node reached from p along path, Nil once a name is no child.
RECURSIVE Follow(_, _)
Follow(p, path) ==
    IF path = <<>> \/ p = Nil THEN p
    ELSE Follow(Lookup(nodes[p].commands, Head(path)), Tail(path))

\* C9: Run returns a Parse error as it is, with no handler invoked and no
\* usage shown.  After a successful Parse it invokes at most one handler, once:
\* that of the node Result.Command leads to from the root, with the parsed
\* Result, and returns what the handler returned; if that node has no handler
\* it invokes none, shows that node's usage and returns nil.  Run does not
\* end in a panic.
C9_Dispatch ==
    /\ pc \notin {NilDereference, NegativeRepeat}
    /\ Len(calls) <= 1
    /\ Len(usage) <= 1
    /\ pc \in {"ready", "loop", "failed", "returned"} =>
          calls = <<>> /\ usage = <<>>
    /\ pc = "done" =>
          IF ret.err # NoErr
          THEN /\ runRet = ret.err
               /\ ret.err \in {ErrNoArgs} \cup {<<"unknown flag: ", t>> : t \in Tokens}
               /\ calls = <<>>
               /\ usage = <<>>
          ELSE LET target == Follow(Root, ret.result.Command)
               IN  IF nodes[target].handler # NoHandler
                   THEN /\ Len(calls) = 1
                        /\ calls[1].node = target
                        /\ calls[1].fn = nodes[target].handler
                        /\ calls[1].result = ret.result
                        /\ runRet = calls[1].returned
                        /\ usage = <<>>
                   ELSE /\ calls = <<>>
                        /\ Len(usage) = 1
                        /\ usage[1].node = target
                        /\ runRet = NoErr

\* C10: Result.Command of a successful Parse is a path of the tree from the
\* root; Run's walk never looks up a missing child, never dereferences nil,
\* and ends on the node that was active when Parse returned.
C10_PathValid ==
    /\ pc # NilDereference
    /\ pc \in {"returned", "walk", "done", NegativeRepeat} /\ ret.err = NoErr =>
          /\ \A k \in 1..Len(ret.result.Command) :
                ret.result.Command[k] \in
                    DOMAIN nodes[Follow(Root, SubSeq(ret.result.Command, 1, k - 1))].commands
          /\ Follow(Root, ret.result.Command) = current
    /\ pc = "walk" =>
          /\ runCur # Nil
          /\ runCur = Follow(Root, SubSeq(ret.result.Command, 1, runK - 1))
          /\ runK > Len(ret.result.Command) => runCur = current

\* Run's walk has followed a path of two names and stands on the node that
\* was active when Parse returned.
C10_Witness ==
    /\ pc = "walk"
    /\ Len(ret.result.Command) = 2
    /\ runK = 3
    /\ runCur = current
    /\ current \notin {Nil, Root}

\* p and its proper ancestors, nearest first.
Chain(p) == <<p>> \o Ancestors(p)

\* l lists, once each, the names that the maps decl[q] of the nodes q of
\* Chain(p) declare, each with the definition of the nearest node declaring
\* it, the names of p's own map before all others.
Inherits(l, p, decl) ==
    LET chain == Chain(p)
        declared == UNION {DOMAIN decl[chain[k]] : k \in 1..Len(chain)}
        nearest(n) ==
            chain[CHOOSE k \in 1..Len(chain) :
                     /\ n \in DOMAIN decl[chain[k]]
                     /\ \A j \in 1..(k - 1) : n \notin DOMAIN decl[chain[j]]]
    IN  /\ NamesOf(l) = declared
        /\ Len(l) = Cardinality(declared)
        /\ \A k \in 1..Len(l) : l[k] = decl[nearest(l[k].name)][l[k].name]
        /\ \A j, k \in 1..Len(l) :
              (l[j].name \in DOMAIN decl[p] /\ l[k].name \notin DOMAIN decl[p])
                  => j < k

\* C8: for every node, collectFlags returns one definition for each flag
\* name declared on the node or an ancestor, the one declared nearest to the
\* node, the node's own flags first; collectOptions likewise over options.
C8_Collect ==
    \A k \in 1..Len(usage) :
        /\ Inherits(usage[k].flags, usage[k].node,
                    [q \in DOMAIN nodes |-> nodes[q].flags])
        /\ Inherits(usage[k].options, usage[k].node,
                    [q \in DOMAIN nodes |-> nodes[q].options])

\* Usage ran on a node at the third level whose flag v is declared on all
\* three levels, with a short on the root that its own definition lacks.
C8_Witness ==
    /\ pc = "shown"
    /\ LET p == usage[1].node
       IN  /\ Len(Chain(p)) = 3
           /\ \A k \in 1..3 : V \in DOMAIN nodes[Chain(p)[k]].flags
           /\ nodes[p].flags[V].short = None
           /\ nodes[Chain(p)[3]].flags[V].short = V
           /\ usage[1].flags = <<nodes[p].flags[V]>>

====
